---- MODULE Spec2Model ----
(***************************************************************************)
(* Light Finder + (src/LgtFindr+.py): the versioned asset store            *)
(* (VersionManager) and the scene applier (LightFinderFunctions).          *)
(*                                                                         *)
(* The store is a directory tree <root>/<asset>/<version>/<asset>.json.    *)
(* A path name is a sequence of characters, a Python value is a tagged     *)
(* record [t, v], a JSON document is a tagged record [j, v].               *)
(***************************************************************************)
EXTENDS Integers, Sequences, FiniteSets, TLC

VARIABLES
    fs,         \* the store root: asset name -> directory entry
    last,       \* the last call: its arguments and what it returned
    ncalls,     \* asset name -> number of publish_file calls so far
    allocated,  \* asset name -> version numbers create_new_version returned
    ext,        \* asset name -> what another actor did to its directory
    nedits,     \* number of edits by another actor so far
    scene,      \* names of the objects in the Maya scene
    applied,    \* the creation requests of the last apply_light_properties
    envs,       \* root directory -> the entry at <root>/env.json
    dirs,       \* the root directories that exist
    managers,   \* the VersionManagers constructed so far
    written,    \* the last override set_custom_path wrote
    collected,  \* the last collect_light_properties call: its input and result
    procs,      \* process -> where it is in publish_file and its locals
    win         \* the loader window: current_asset, current_version, version_combo

storeVars == <<fs, last, ncalls, allocated, ext, nedits>>
sceneVars == <<scene, applied>>
pathVars == <<envs, dirs, managers, written>>
\* what the store, scene and override actions leave alone
otherVars == <<collected, procs, win>>

vars == <<fs, last, ncalls, allocated, ext, nedits, scene, applied,
          envs, dirs, managers, written, collected, procs, win>>

(***************************************************************************)
(* Bounds                                                                  *)
(***************************************************************************)
\* number of publish_file calls in one behaviour
MaxPublish == 3

\* number of edits of the store by another actor in one behaviour
MaxEdits == 2

\* number of apply_light_properties calls in one behaviour
MaxApply == 1

\* number of LightEntries in the record given to apply_light_properties
MaxLights == 2

\* number of VersionManagers constructed in one behaviour
MaxManagers == 3

\* number of overrides set_custom_path writes in one behaviour
MaxOverrides == 2

\* number of identifiers given to collect_light_properties
MaxSelected == 3

\* number of collect_light_properties calls in one behaviour
MaxCollect == 1

\* Optional[int] "None" of get_latest_version (versions are >= 0)
None == -1

(***************************************************************************)
(* Names: str.isdigit, int(str), str(int)                                  *)
(***************************************************************************)
AsciiDigits == <<"0", "1", "2", "3", "4", "5", "6", "7", "8", "9">>

\* U+00B2 SUPERSCRIPT TWO: a digit for str.isdigit, not a decimal for int()
Sup2 == "sup2"

IsAsciiDigit(c) == \E i \in 1..10 : AsciiDigits[i] = c

DigitVal(c) == (CHOOSE i \in 1..10 : AsciiDigits[i] = c) - 1

\* str.isdigit(): non-empty and every character has the Unicode digit property
isdigit(name) ==
    /\ Len(name) > 0
    /\ \A i \in 1..Len(name) : IsAsciiDigit(name[i]) \/ name[i] = Sup2

\* int(name) raises ValueError unless every character is a decimal digit
IntRaises(name) ==
    \/ Len(name) = 0
    \/ \E i \in 1..Len(name) : ~IsAsciiDigit(name[i])

RECURSIVE int(_)
int(name) ==
    IF Len(name) = 0 THEN 0
    ELSE 10 * int(SubSeq(name, 1, Len(name) - 1)) + DigitVal(name[Len(name)])

RECURSIVE str(_)
str(n) ==
    IF n < 10 THEN <<AsciiDigits[n + 1]>>
    ELSE Append(str(n \div 10), AsciiDigits[(n % 10) + 1])

(***************************************************************************)
(* Python values and JSON documents                                        *)
(***************************************************************************)
PyNum(n)   == [t |-> "num", v |-> n]
PyStr(s)   == [t |-> "str", v |-> s]
PyList(s)  == [t |-> "list", v |-> s]
PyTuple(s) == [t |-> "tuple", v |-> s]
PyDict(d)  == [t |-> "dict", v |-> d]
PyNone     == [t |-> "none"]
\* a value json has no encoder for (a set, an object, bytes)
PyObject   == [t |-> "object"]

JNum(n) == [j |-> "number", v |-> n]
JStr(s) == [j |-> "string", v |-> s]
JArr(s) == [j |-> "array", v |-> s]
JObj(d) == [j |-> "object", v |-> d]
JNull   == [j |-> "null"]

\* json.dump raises TypeError on a value it has no encoder for
RECURSIVE Serializable(_)
Serializable(x) ==
    CASE x.t \in {"num", "str", "none"} -> TRUE
      [] x.t \in {"list", "tuple"} -> \A i \in 1..Len(x.v) : Serializable(x.v[i])
      [] x.t = "dict" -> \A k \in DOMAIN x.v : Serializable(x.v[k])
      [] OTHER -> FALSE

\* json.dump: lists and tuples both become arrays
RECURSIVE JsonDump(_)
JsonDump(x) ==
    CASE x.t = "num" -> JNum(x.v)
      [] x.t = "str" -> JStr(x.v)
      [] x.t = "none" -> JNull
      [] x.t \in {"list", "tuple"} -> JArr([i \in 1..Len(x.v) |-> JsonDump(x.v[i])])
      [] x.t = "dict" -> JObj([k \in DOMAIN x.v |-> JsonDump(x.v[k])])

\* json.load: arrays become lists, objects become dicts
RECURSIVE JsonLoad(_)
JsonLoad(d) ==
    CASE d.j = "number" -> PyNum(d.v)
      [] d.j = "string" -> PyStr(d.v)
      [] d.j = "null" -> PyNone
      [] d.j = "array" -> PyList([i \in 1..Len(d.v) |-> JsonLoad(d.v[i])])
      [] d.j = "object" -> PyDict([k \in DOMAIN d.v |-> JsonLoad(d.v[k])])

\* mutant: file_data.setdefault(key, value)
SetDefault(x, key, value) ==
    PyDict([k \in DOMAIN x.v \cup {key} |-> IF k \in DOMAIN x.v THEN x.v[k] ELSE value])

\* file_data[key] = value
SetItem(x, key, value) ==
    PyDict([k \in DOMAIN x.v \cup {key} |-> IF k = key THEN value ELSE x.v[k]])

(***************************************************************************)
(* The directory tree                                                      *)
(***************************************************************************)
Assets == {"rigA"}

NoEntry == [kind |-> "none"]
FileEntry == [kind |-> "file"]
\* an asset directory: ents maps the names in it to FileEntry or VersionDir
AssetDir(ents) == [kind |-> "dir", ents |-> ents]
\* a version directory: rec is the entry at <version>/<asset>.json
VersionDir(rec) == [kind |-> "dir", rec |-> rec]
RecordDir == [kind |-> "dir"]
\* a text file: wf says whether it is a well-formed JSON document
TextFile(doc) == [kind |-> "text", wf |-> TRUE, doc |-> doc]
Truncated == [kind |-> "text", wf |-> FALSE]

EmptyDir == AssetDir([n \in {} |-> NoEntry])

Names(e) == IF e.kind = "dir" THEN DOMAIN e.ents ELSE {}

\* the directory e with the entry name set to child
WithEntry(e, name, child) ==
    AssetDir([n \in Names(e) \cup {name} |-> IF n = name THEN child ELSE e.ents[n]])

WithoutEntry(e, name) ==
    AssetDir([n \in Names(e) \ {name} |-> e.ents[n]])

\* the entry at <root>/<asset>/<name>/<asset>.json
RecordAt(store, asset, name) ==
    IF name \in Names(store[asset]) /\ store[asset].ents[name].kind = "dir"
    THEN store[asset].ents[name].rec
    ELSE NoEntry

(***************************************************************************)
(* VersionManager                                                          *)
(***************************************************************************)
\* mutant: sorted(versions) without reverse=True
RECURSIVE SortedAscending(_)
SortedAscending(S) ==
    IF S = {} THEN <<>>
    ELSE LET m == CHOOSE n \in S : \A k \in S : int(n) <= int(k)
         IN  <<int(m)>> \o SortedAscending(S \ {m})

\* sorted(versions, reverse=True) of the numbers the names in S stand for
RECURSIVE SortedReverse(_)
SortedReverse(S) ==
    IF S = {} THEN <<>>
    ELSE LET m == CHOOSE n \in S : \A k \in S : int(n) >= int(k)
         IN  <<int(m)>> \o SortedReverse(S \ {m})

\* the names get_versions converts: item.is_dir() and item.name.isdigit()
DigitDirs(e) == {n \in Names(e) : e.ents[n].kind = "dir" /\ isdigit(n)}

\* get_versions(asset_name): [exc, val]; iterdir raises on a regular file,
\* int raises on a name isdigit accepts and int does not
get_versions(store, asset) ==
    LET e == store[asset]
    IN  IF e.kind = "none" THEN [exc |-> "none", val |-> <<>>]
        ELSE IF e.kind = "file" THEN [exc |-> "NotADirectoryError", val |-> <<>>]
        ELSE IF \E n \in DigitDirs(e) : IntRaises(n)
             THEN [exc |-> "ValueError", val |-> <<>>]
        ELSE [exc |-> "none", val |-> SortedReverse(DigitDirs(e))]

\* mutant: versions[-1] if versions else None
get_latest_version_Last(store, asset) ==
    LET r == get_versions(store, asset)
    IN  IF r.exc # "none" THEN [exc |-> r.exc, val |-> None]
        ELSE [exc |-> "none", val |-> IF Len(r.val) > 0 THEN r.val[Len(r.val)] ELSE None]

\* get_latest_version(asset_name): versions[0] if versions else None
get_latest_version(store, asset) ==
    LET r == get_versions(store, asset)
    IN  IF r.exc # "none" THEN [exc |-> r.exc, val |-> None]
        ELSE [exc |-> "none", val |-> IF Len(r.val) > 0 THEN r.val[1] ELSE None]

\* mutant: new_version = latest or 1
NewVersionNoIncrement(latest) == IF latest = None \/ latest = 0 THEN 1 ELSE latest

\* new_version = (latest or 0) + 1
NewVersion(latest) == (IF latest = None \/ latest = 0 THEN 0 ELSE latest) + 1

\* asset_path.mkdir(parents=True, exist_ok=True): [exc, fs]; fault names the
\* filesystem call that fails with OSError, "none" for a reliable filesystem
MkdirAsset(store, asset, fault) ==
    IF store[asset].kind = "file" THEN [exc |-> "FileExistsError", fs |-> store]
    ELSE IF store[asset].kind = "dir" THEN [exc |-> "none", fs |-> store]
    ELSE IF fault = "mkdir_asset" THEN [exc |-> "OSError", fs |-> store]
    ELSE [exc |-> "none", fs |-> [store EXCEPT ![asset] = EmptyDir]]

\* mutant: version_path.mkdir(parents=True) without exist_ok
MkdirVersionExclusive(store, asset, new_version, fault) ==
    IF str(new_version) \in Names(store[asset])
    THEN [exc |-> "FileExistsError", fs |-> store, version |-> None]
    ELSE [exc |-> "none",
          fs |-> [store EXCEPT ![asset] =
                      WithEntry(store[asset], str(new_version), VersionDir(NoEntry))],
          version |-> new_version]

\* version_path = asset_path / str(new_version)
\* version_path.mkdir(parents=True, exist_ok=True): [exc, fs, version]
MkdirVersion(store, asset, new_version, fault) ==
    LET name == str(new_version)
    IN  IF name \in Names(store[asset])
        THEN IF store[asset].ents[name].kind = "dir"
             THEN [exc |-> "none", fs |-> store, version |-> new_version]
             ELSE [exc |-> "FileExistsError", fs |-> store, version |-> None]
        ELSE IF fault = "mkdir_version"
             THEN [exc |-> "OSError", fs |-> store, version |-> None]
        ELSE [exc |-> "none",
              fs |-> [store EXCEPT ![asset] = WithEntry(store[asset], name, VersionDir(NoEntry))],
              version |-> new_version]

\* latest = self.get_latest_version(asset_name) and what follows it
AllocateAfter(store, asset, latest, fault) ==
    IF latest.exc # "none" THEN [exc |-> latest.exc, fs |-> store, version |-> None]
    ELSE MkdirVersion(store, asset, NewVersion(latest.val), fault)

\* what follows asset_path.mkdir in create_new_version
AllocateIn(made, asset, fault) ==
    IF made.exc # "none" THEN [exc |-> made.exc, fs |-> made.fs, version |-> None]
    ELSE AllocateAfter(made.fs, asset, get_latest_version(made.fs, asset), fault)

\* create_new_version(asset_name): [exc, fs, version]
create_new_version(store, asset, fault) ==
    AllocateIn(MkdirAsset(store, asset, fault), asset, fault)

\* the store with the record file of a version directory replaced
WriteRecord(store, asset, name, rec) ==
    [store EXCEPT ![asset] = WithEntry(store[asset], name, VersionDir(rec))]

\* mutant: "except OSError"
ExceptOSError(exc) ==
    exc \in {"OSError", "FileExistsError", "NotADirectoryError", "IsADirectoryError"}

\* "except Exception" catches every exception class the body can raise
ExceptException(exc) ==
    exc \in {"OSError", "FileExistsError", "NotADirectoryError", "IsADirectoryError",
             "ValueError", "TypeError", "JSONDecodeError", "RuntimeError",
             "AttributeError"}

\* file_data["_published"] = ...; file_data["_asset_name"] = asset_name
Stamped(file_data, now, asset) ==
    SetItem(SetItem(file_data, "_published", PyStr(now)), "_asset_name", PyStr(asset))

\* with open(file_path, 'w') as f: json.dump(file_data, f, indent=2)
\* open creates or truncates the file and json.dump writes chunk by chunk: a
\* failure while dumping leaves a truncated file
WriteFile(store, asset, version, stamped, fault) ==
    IF RecordAt(store, asset, str(version)).kind = "dir"
    THEN [exc |-> "IsADirectoryError", fs |-> store, version |-> version]
    ELSE IF fault = "open"
    THEN [exc |-> "OSError", fs |-> store, version |-> version]
    ELSE IF ~Serializable(stamped)
    THEN [exc |-> "TypeError",
          fs |-> WriteRecord(store, asset, str(version), Truncated), version |-> version]
    ELSE IF fault = "write"
    THEN [exc |-> "OSError",
          fs |-> WriteRecord(store, asset, str(version), Truncated), version |-> version]
    ELSE [exc |-> "none",
          fs |-> WriteRecord(store, asset, str(version), TextFile(JsonDump(stamped))),
          version |-> version]

\* what follows create_new_version in the try body; c is what it returned
WriteIn(c, asset, file_data, now, fault) ==
    IF c.exc # "none" THEN c
    ELSE IF file_data.t # "dict"
    THEN [exc |-> "TypeError", fs |-> c.fs, version |-> c.version]
    ELSE WriteFile(c.fs, asset, c.version, Stamped(file_data, now, asset), fault)

\* the try body of publish_file: [exc, fs, version]
PublishBody(store, asset, file_data, now, fault) ==
    WriteIn(create_new_version(store, asset, fault), asset, file_data, now, fault)

\* try: ... return True / except Exception: return False, b the body's outcome
PublishResult(b) ==
    [ret |-> b.exc = "none",
     raised |-> b.exc # "none" /\ ~ExceptException(b.exc),
     fs |-> b.fs, version |-> b.version]

\* publish_file(asset_name, file_data): [ret, raised, fs, version]
publish_file(store, asset, file_data, now, fault) ==
    PublishResult(PublishBody(store, asset, file_data, now, fault))

\* get_version_path(asset_name, version): the name of the version directory
get_version_path(version) == IF version = None THEN <<"N", "o", "n", "e">> ELSE str(version)

\* if file_path.exists(): with open(file_path, 'r') as f: return json.load(f)
\* rec is the entry at file_path: [exc, val]
ReadFile(rec) ==
    IF rec.kind = "none" THEN [exc |-> "none", val |-> PyNone]
    ELSE IF rec.kind = "dir" THEN [exc |-> "IsADirectoryError", val |-> PyNone]
    ELSE IF ~rec.wf THEN [exc |-> "JSONDecodeError", val |-> PyNone]
    ELSE [exc |-> "none", val |-> JsonLoad(rec.doc)]

\* the try body of load_file: [exc, val]
LoadBody(store, asset, version) ==
    ReadFile(RecordAt(store, asset, get_version_path(version)))

\* mutant: load_file without its try/except
LoadResultNoTry(store, b) ==
    [ret |-> b.val, raised |-> b.exc # "none", fs |-> store]

\* try: ... / except Exception: ... / return None, b the body's outcome
LoadResult(store, b) ==
    [ret |-> b.val, raised |-> b.exc # "none" /\ ~ExceptException(b.exc), fs |-> store]

\* load_file(asset_name, version): [ret, raised, fs]
load_file(store, asset, version) == LoadResult(store, LoadBody(store, asset, version))

(***************************************************************************)
(* The custom path override: VersionManager.__init__ and set_custom_path   *)
(* A root directory is the sequence of its path components.                *)
(***************************************************************************)
\* str(Path.home() / "LgtFindr_maya")
DefaultPath == <<"home", "LgtFindr_maya">>

\* Path(custom_path) / "Published_lights"
PublishedLights(custom_path) == <<custom_path, "Published_lights">>

\* folders a custom path can name
CustomPaths == {"P1", "P2"}

\* a custom path at which a regular file stands
BlockedPaths == {"F"}

Roots == {DefaultPath} \cup {PublishedLights(p) : p \in CustomPaths}

\* bool(x) of a Python value
Truthy(x) ==
    CASE x.t = "none" -> FALSE
      [] x.t = "str" -> x.v # ""
      [] x.t = "num" -> x.v # 0
      [] x.t \in {"list", "tuple"} -> Len(x.v) > 0
      [] x.t = "dict" -> DOMAIN x.v # {}
      [] OTHER -> TRUE

\* data.get(key)
DictGet(data, key) == IF key \in DOMAIN data.v THEN data.v[key] ELSE PyNone

\* with open(env_path, "r") as f: data = json.load(f); data.get("custom_path")
\* entry is what stands at env_path: [exc, val]
OverrideBody(entry) ==
    IF entry.kind = "dir" THEN [exc |-> "IsADirectoryError", val |-> PyNone]
    ELSE IF ~entry.wf THEN [exc |-> "JSONDecodeError", val |-> PyNone]
    ELSE IF JsonLoad(entry.doc).t # "dict" THEN [exc |-> "AttributeError", val |-> PyNone]
    ELSE [exc |-> "none", val |-> DictGet(JsonLoad(entry.doc), "custom_path")]

\* try: ... / except Exception as e: print(...), b the body's outcome;
\* custom_path stays None when the body raised
OverrideResult(b) ==
    IF b.exc = "none" THEN b
    ELSE IF ExceptException(b.exc) THEN [exc |-> "none", val |-> PyNone]
    ELSE b

\* custom_path = None; if os.path.exists(env_path): try: ...
CustomPath(entry) ==
    IF entry.kind = "none" THEN [exc |-> "none", val |-> PyNone]
    ELSE OverrideResult(OverrideBody(entry))

\* path.mkdir(parents=True, exist_ok=True) of a root: [exc, base_path, dirs]
MkdirRoot(made, path) ==
    IF path[1] \in BlockedPaths
    THEN [exc |-> "NotADirectoryError", base_path |-> <<>>, dirs |-> made]
    ELSE [exc |-> "none", base_path |-> path, dirs |-> made \cup {path}]

\* if custom_path: ... else: ..., cp what reading the override gave
ChooseRoot(cp, made, default_path) ==
    IF cp.exc # "none" THEN [exc |-> cp.exc, base_path |-> <<>>, dirs |-> made]
    ELSE IF Truthy(cp.val)
    THEN IF cp.val.t # "str"
         \* Path(custom_path) of a number, a list, a mapping
         THEN [exc |-> "TypeError", base_path |-> <<>>, dirs |-> made]
         ELSE MkdirRoot(made, PublishedLights(cp.val.v))
    ELSE MkdirRoot(made, default_path)

\* VersionManager(base_path): [exc, base_path, dirs]
VersionManager(env, made, default_path) ==
    ChooseRoot(CustomPath(env[default_path]), made, default_path)

\* json.dump({"custom_path": new_path}, f, indent=2)
OverrideRecord(new_path) ==
    TextFile(JsonDump(PyDict([custom_path |-> PyStr(new_path)])))

\* default_path = str(self.version_manager.base_path)
\* env_path = os.path.join(default_path, "env.json")
EnvDir(base_path) == base_path

\* set_custom_path with the dialog answered (new_path, ok): [wrote, envs];
\* a failed open is caught and shown as a warning
set_custom_path(env, base_path, new_path, ok) ==
    IF ok /\ new_path # "" /\ env[EnvDir(base_path)].kind # "dir"
    THEN [wrote |-> TRUE,
          envs |-> [env EXCEPT ![EnvDir(base_path)] = OverrideRecord(new_path)]]
    ELSE [wrote |-> FALSE, envs |-> env]

(***************************************************************************)
(* LightFinderFunctions.collect_light_properties                           *)
(* A scene node is [name, shapes, reads]: what listRelatives(shapes=True)  *)
(* does for it and what getAttr does for each of its attributes.           *)
(***************************************************************************)
\* cmds.listAttr(light, keyable=True)
TransformKeyable == <<"visibility", "translateX", "scale">>

\* cmds.listAttr(shape, keyable=True)
ShapeKeyable == <<"intensity", "color", "aiExposure">>

\* cmds.listAttr(shapes)
ShapeAll == <<"intensity", "color", "aiExposure", "aiUserOptions", "caching">>

AttrNamesRead ==
    {"visibility", "translateX", "scale", "intensity", "color", "aiExposure",
     "aiUserOptions", "caching"}

\* any(keyword in attr.lower() for keyword in ["translate", "rotate", "scale", "shear"])
HasTransformKeyword(attr) == attr \in {"translateX", "scale"}

\* "ai" in attr
HasAi(attr) == attr \in {"aiExposure", "aiUserOptions"}

\* a getAttr that raises, a getAttr that returns val
ReadRaises == [ok |-> FALSE]
ReadGives(val) == [ok |-> TRUE, val |-> val]

\* mutant: every sequence is stored as a list
NormalizeToList(attr_value) ==
    IF attr_value.t \in {"list", "tuple"} THEN PyList(attr_value.v) ELSE attr_value

\* if isinstance(attr_value, (list, tuple)):
\*     attr_value[0] if len(attr_value) == 1 else list(attr_value)
\* else: attr_value
Normalize(attr_value) ==
    IF attr_value.t \in {"list", "tuple"}
    THEN IF Len(attr_value.v) = 1 THEN attr_value.v[1] ELSE PyList(attr_value.v)
    ELSE attr_value

\* try: d[attr] = <normalised cmds.getAttr(attr_path)> / except: pass
StoreRead(d, attr, read) ==
    IF read.ok
    THEN [k \in DOMAIN d \cup {attr} |-> IF k = attr THEN Normalize(read.val) ELSE d[k]]
    ELSE d

EmptyDict == [k \in {} |-> PyNone]

\* for attr in transform_attrs: if any(keyword ...): try: ...
RECURSIVE CollectTransform(_, _, _, _)
CollectTransform(attrs, i, reads, d) ==
    IF i > Len(attrs) THEN d
    ELSE CollectTransform(attrs, i + 1, reads,
                          IF HasTransformKeyword(attrs[i])
                          THEN StoreRead(d, attrs[i], reads[attrs[i]])
                          ELSE d)

\* for attr in all_attrs: try: ...
RECURSIVE CollectShape(_, _, _, _)
CollectShape(attrs, i, reads, d) ==
    IF i > Len(attrs) THEN d
    ELSE CollectShape(attrs, i + 1, reads, StoreRead(d, attrs[i], reads[attrs[i]]))

\* get_arnold_attributes(shapes)
get_arnold_attributes(all_attrs) == SelectSeq(all_attrs, HasAi)

\* light_data after the three attribute loops
LightData(node) ==
    [name |-> node.name, type |-> node.type,
     attributes |-> CollectShape(get_arnold_attributes(ShapeAll), 1, node.reads,
                                 CollectShape(ShapeKeyable, 1, node.reads, EmptyDict)),
     transform |-> CollectTransform(TransformKeyable, 1, node.reads, EmptyDict)]

\* mutant: properties["lights"].insert(0, light_data)
InsertLight(lights, light_data) == <<light_data>> \o lights

\* properties["lights"].append(light_data)
AppendLight(lights, light_data) == Append(lights, light_data)

\* for light in lights: try: shapes = cmds.listRelatives(light, shapes=True);
\* if shapes: ... / except: pass
RECURSIVE CollectLoop(_, _, _)
CollectLoop(nodes, i, lights) ==
    IF i > Len(nodes) THEN lights
    ELSE CollectLoop(nodes, i + 1,
                     IF nodes[i].shapes = "shape"
                     THEN AppendLight(lights, LightData(nodes[i]))
                     ELSE lights)

\* collect_light_properties(lights): properties["lights"]
collect_light_properties(nodes) == CollectLoop(nodes, 1, <<>>)

(***************************************************************************)
(* LightFinderFunctions.apply_light_properties and the Maya scene          *)
(*                                                                         *)
(* An object name is base + "_n" for every n of sfx + "Shape" if shape,    *)
(* + the number Maya appended to make it unique (auto, 0 for none).        *)
(* A type string is the sequence of the words it is made of.               *)
(***************************************************************************)
ObjName(base, sfx, shape) == [base |-> base, sfx |-> sfx, shape |-> shape, auto |-> 0]

\* f"{name}_{counter}"
WithCounter(name, counter) == [name EXCEPT !.sfx = Append(@, counter)]

\* f"{light_name}Shape"
WithShape(name) == [name EXCEPT !.shape = TRUE]

\* cmds.objExists(name)
objExists(scn, name) == name \in scn

\* the name Maya gives a new node asked to be called name: that name when it
\* is free, else the name with the first free number appended
RECURSIVE MayaName(_, _, _)
MayaName(scn, name, k) ==
    IF [name EXCEPT !.auto = k] \notin scn THEN [name EXCEPT !.auto = k]
    ELSE MayaName(scn, name, k + 1)

\* str.lower() of one word of a type string
Lower(w) ==
    CASE w = "Point" -> "point"
      [] w = "Spot" -> "spot"
      [] w = "Directional" -> "directional"
      [] w = "Light" -> "light"
      [] w = "aiAreaLight" -> "aiarealight"
      [] w = "aiMesh" -> "aimesh"
      [] OTHER -> w

\* sub in type
Contains(type, sub) == \E i \in 1..Len(type) : type[i] = sub

\* sub in type.lower()
ContainsLower(type, sub) == \E i \in 1..Len(type) : Lower(type[i]) = sub

\* mutant: the "point" test before the "aiAreaLight" test
CreationPointFirst(type) ==
    IF ContainsLower(type, "point") THEN "pointLight"
    ELSE IF Contains(type, "aiAreaLight") THEN "aiAreaLight"
    ELSE IF Contains(type, "aiMesh") THEN "mesh"
    ELSE IF ContainsLower(type, "directional") THEN "directionalLight"
    ELSE IF ContainsLower(type, "spot") THEN "spotLight"
    ELSE "areaLight"

\* the creation operation the if/elif chain picks for a type string
Creation(type) ==
    IF Contains(type, "aiAreaLight") THEN "aiAreaLight"
    ELSE IF Contains(type, "aiMesh") THEN "mesh"
    ELSE IF ContainsLower(type, "directional") THEN "directionalLight"
    ELSE IF ContainsLower(type, "point") THEN "pointLight"
    ELSE IF ContainsLower(type, "spot") THEN "spotLight"
    ELSE "areaLight"

\* mutant: the name= argument is light_name for every type
RequestedPlain(op, light_name) == light_name

\* the name= argument of the creation call
Requested(op, light_name) ==
    IF op = "aiAreaLight" THEN WithShape(light_name) ELSE light_name

\* light_name = name; counter = 1
\* while cmds.objExists(light_name): light_name = f"{name}_{counter}"; counter += 1
RECURSIVE UniqueName(_, _, _)
UniqueName(scn, name, counter) ==
    LET light_name == IF counter = 0 THEN name ELSE WithCounter(name, counter)
    IN  IF objExists(scn, light_name) THEN UniqueName(scn, name, counter + 1)
        ELSE light_name

\* the nodes one creation call adds: createNode makes the node and a parent
\* transform Maya names (after the shape when strip, else "transform<n>");
\* the light commands make the transform and its "<name>Shape"
Created(scn, op, requested, strip) ==
    IF op \in {"directionalLight", "pointLight", "spotLight"}
    THEN LET transform == MayaName(scn, requested, 0)
             shape == MayaName(scn \cup {transform}, WithShape(transform), 0)
         IN  [transform |-> transform, shape |-> shape]
    ELSE LET shape == MayaName(scn, requested, 0)
             parent == IF strip /\ requested.shape
                       THEN [requested EXCEPT !.shape = FALSE]
                       ELSE ObjName("transform", <<>>, FALSE)
             transform == MayaName(scn \cup {shape}, parent, 1 - (IF strip /\ requested.shape THEN 1 ELSE 0))
         IN  [transform |-> transform, shape |-> shape]

NoCall == [calls |-> 0]

\* what cmds raises when a command fails
MayaError == "RuntimeError"

\* applied_count / transform_applied after the two setAttr loops of entry i:
\* every setAttr of an entry in unset raises and is swallowed
AppliedCount(light_data, i, unset) ==
    IF i \in unset THEN 0 ELSE Cardinality(light_data.attributes)

\* mutant: a light is appended only when an attribute was set
AppendCreatedIfSet(created_lights, made, applied_count) ==
    IF applied_count > 0 THEN Append(created_lights, made.transform) ELSE created_lights

\* created_lights.append(light_transform if light_transform else shape_node)
AppendCreated(created_lights, made, applied_count) ==
    Append(created_lights, made.transform)

\* one pass of the "for light_data in ..." loop over lights[i..]: the scene,
\* the creation requests and created_lights so far; fails is the set of
\* indices whose creation call raises, unset the set of indices whose
\* setAttr calls raise
RECURSIVE ApplyLoop(_, _, _, _, _, _, _, _)
ApplyLoop(scn, lights, i, fails, unset, strip, requests, created_lights) ==
    IF i > Len(lights)
    THEN [exc |-> "none", scene |-> scn, requests |-> requests, created |-> created_lights]
    ELSE LET light_data == lights[i]
             light_name == UniqueName(scn, light_data.name, 0)
             op == Creation(light_data.type)
             requested == Requested(op, light_name)
             request == [entry |-> i, op |-> op, name |-> requested,
                         existed |-> objExists(scn, requested),
                         failed |-> i \in fails,
                         applied_count |-> AppliedCount(light_data, i, unset)]
             made == Created(scn, op, requested, strip)
         IN  IF i \in fails
             \* the creation call raised: "Warning: Failed to create light"
             THEN IF ExceptException(MayaError)
                  THEN ApplyLoop(scn, lights, i + 1, fails, unset, strip,
                                 Append(requests, request), created_lights)
                  ELSE [exc |-> MayaError, scene |-> scn,
                        requests |-> Append(requests, request), created |-> created_lights]
             ELSE ApplyLoop(scn \cup {made.transform, made.shape}, lights, i + 1,
                            fails, unset, strip, Append(requests, request),
                            AppendCreated(created_lights, made, request.applied_count))

\* if created_lights: cmds.select(created_lights); return True / else: return False
\* under the outer try / except Exception: return False
ApplyResult(r) ==
    [scene |-> r.scene, requests |-> r.requests, created |-> r.created,
     ret |-> r.exc = "none" /\ Len(r.created) > 0,
     raised |-> r.exc # "none" /\ ~ExceptException(r.exc)]

\* apply_light_properties(properties): [scene, requests, created, ret, raised]
apply_light_properties(scn, lights, fails, unset, strip) ==
    ApplyResult(ApplyLoop(scn, lights, 1, fails, unset, strip, <<>>, <<>>))

(***************************************************************************)
(* Concurrent publishers and the loader window: their initial values       *)
(***************************************************************************)
\* the processes that publish to one root
Procs == {"p1", "p2"}

\* a process outside publish_file; inside it, pc is the statement it is at
\* and data, latest, version are its locals
IdleProc ==
    [pc |-> "idle", data |-> PyNone, listed |-> FALSE, latest |-> None,
     version |-> None, ret |-> FALSE, raised |-> FALSE]

\* self.current_asset = None
NoAsset == ""

\* self.current_asset = None; self.current_version = None; an empty
\* loader_list and an empty version_combo (currentIndex -1)
NewWindow ==
    [assets |-> {}, selected |-> NoAsset, current_asset |-> NoAsset,
     current_version |-> None, combo |-> <<>>, index |-> 0]

(***************************************************************************)
(* Inputs                                                                  *)
(***************************************************************************)
Vec(a, b, c) == <<PyNum(a), PyNum(b), PyNum(c)>>

\* a LightEntry as collect_light_properties builds it
LightEntry(name, type, attributes, transform) ==
    PyDict([name |-> PyStr(name), type |-> PyStr(type),
            attributes |-> PyDict(attributes), transform |-> PyDict(transform)])

LightKey ==
    LightEntry("key1", "pointLight",
               [intensity |-> PyNum(5), color |-> PyList(Vec(1, 1, 1))],
               [translateX |-> PyNum(5)])

\* getAttr of a compound attribute returns [(x, y, z)]: the tuple is stored
LightFill ==
    LightEntry("fill1", "aiAreaLight", [aiShadowColor |-> PyTuple(Vec(0, 0, 0))],
               [translateX |-> PyNum(0)])

LightRim ==
    LightEntry("rim1", "spotLight", [coneAngle |-> PyNum(40)], [rotateY |-> PyNum(90)])

LightObject ==
    LightEntry("key1", "pointLight", [intensity |-> PyObject], [translateX |-> PyNum(5)])

RecTwo == PyDict([lights |-> PyList(<<LightKey, LightFill>>), description |-> PyStr("")])

\* a record that already carries the two metadata keys
RecThree ==
    PyDict([lights |-> PyList(<<LightKey, LightRim, LightRim>>),
            description |-> PyStr("three lights"),
            _published |-> PyStr("1999-12-31T23:59:59"),
            _asset_name |-> PyStr("other")])

\* a record json.dump has no encoder for
RecObject == PyDict([lights |-> PyList(<<LightObject>>), description |-> PyStr("")])

Records == {RecTwo, RecThree, RecObject}

\* datetime.now().isoformat()
Times == {"2023-05-01T10:00:00"}

PublishFaults == {"mkdir_asset", "mkdir_version", "open", "write"}

\* directory names another actor creates in an asset directory
ExtDirNames == {<<"3">>, <<"5">>, <<"0", "1">>, <<Sup2>>, <<"t", "m", "p">>}
\* file names another actor creates in an asset directory
ExtFileNames == {<<"2">>}
\* what another actor puts at <version>/<asset>.json
ExtRecords == {RecordDir}

(***************************************************************************)
(* The store as a state machine                                            *)
(***************************************************************************)
RECURSIVE Sum(_, _)
Sum(f, S) == IF S = {} THEN 0 ELSE LET x == CHOOSE y \in S : TRUE IN f[x] + Sum(f, S \ {x})

NPublished == Sum(ncalls, Assets)

\* the version numbers a load is tried with: the listed ones, a missing one, None
LoadVersions(asset) ==
    {int(n) : n \in {m \in DigitDirs(fs[asset]) : ~IntRaises(m)}} \cup {9, None}

InitStore ==
    /\ fs = [a \in Assets |-> NoEntry]
    /\ last = [op |-> "init"]
    /\ ncalls = [a \in Assets |-> 0]
    /\ allocated = [a \in Assets |-> {}]
    /\ ext = [a \in Assets |-> "none"]
    /\ nedits = 0

\* no VersionManager constructed yet, no env.json anywhere
InitPath ==
    /\ envs = [r \in Roots |-> NoEntry]
    /\ dirs = {}
    /\ managers = <<>>
    /\ written = [n |-> 0, set |-> FALSE, path |-> "", active |-> <<>>, before |-> <<>>]

\* no collect_light_properties call yet
InitCollect == collected = NoCall

\* every process is outside publish_file
InitProcs == procs = [p \in Procs |-> IdleProc]

\* LightFinderWindow.__init__ on an empty root: nothing listed, nothing selected
InitWin == win = NewWindow

Init ==
    /\ InitStore
    /\ InitPath
    /\ InitCollect /\ InitProcs /\ InitWin
    /\ scene = {}
    /\ applied = NoCall

PublishCall(asset, file_data, now, fault) ==
    LET r == publish_file(fs, asset, file_data, now, fault)
    IN  /\ NPublished < MaxPublish
        /\ fs' = r.fs
        /\ last' = [op |-> "publish", asset |-> asset, data |-> file_data, now |-> now,
                    ret |-> r.ret, raised |-> r.raised,
                    version |-> r.version]
        /\ ncalls' = [ncalls EXCEPT ![asset] = @ + 1]
        /\ allocated' = IF r.version = None THEN allocated
                        ELSE [allocated EXCEPT ![asset] = @ \cup {r.version}]
        /\ UNCHANGED <<ext, nedits, sceneVars, pathVars, otherVars>>

LoadCall(asset, version) ==
    LET r == load_file(fs, asset, version)
    IN  /\ fs' = r.fs
        /\ last' = [op |-> "load", asset |-> asset, version |-> version,
                    ret |-> r.ret, raised |-> r.raised]
        /\ UNCHANGED <<ncalls, allocated, ext, nedits, sceneVars, pathVars, otherVars>>

Publish == \E a \in Assets, d \in Records, now \in Times : PublishCall(a, d, now, "none")

Load == \E a \in Assets : \E v \in LoadVersions(a) : LoadCall(a, v)

PublishIO ==
    \E a \in Assets, d \in Records, now \in Times, f \in PublishFaults :
        PublishCall(a, d, now, f)

\* another actor edits the store
Edited(asset, how) ==
    /\ nedits < MaxEdits
    /\ nedits' = nedits + 1
    /\ ext' = [ext EXCEPT ![asset] = IF how = "deleted" /\ @ # "edited" THEN "deleted" ELSE "edited"]
    /\ last' = [op |-> "edit", asset |-> asset]
    /\ UNCHANGED <<ncalls, allocated, sceneVars, pathVars, otherVars>>

ExtMkdir ==
    \E a \in Assets, n \in ExtDirNames :
        /\ fs[a].kind # "file"
        /\ n \notin Names(fs[a])
        /\ fs' = [fs EXCEPT ![a] = WithEntry(fs[a], n, VersionDir(NoEntry))]
        /\ Edited(a, "edited")

ExtMkfile ==
    \/ \E a \in Assets, n \in ExtFileNames :
        /\ fs[a].kind = "dir"
        /\ n \notin Names(fs[a])
        /\ fs' = [fs EXCEPT ![a] = WithEntry(fs[a], n, FileEntry)]
        /\ Edited(a, "edited")
    \/ \E a \in Assets :
        /\ fs[a].kind = "none"
        /\ fs' = [fs EXCEPT ![a] = FileEntry]
        /\ Edited(a, "edited")

\* a version directory is deleted with what it holds
ExtRmdir ==
    \E a \in Assets : \E n \in Names(fs[a]) :
        /\ fs[a].ents[n].kind = "dir"
        /\ fs' = [fs EXCEPT ![a] = WithoutEntry(fs[a], n)]
        /\ Edited(a, "deleted")

ExtWrite ==
    \E a \in Assets, r \in ExtRecords : \E n \in Names(fs[a]) :
        /\ fs[a].ents[n].kind = "dir"
        /\ fs[a].ents[n].rec # r
        /\ fs' = [fs EXCEPT ![a] = WithEntry(fs[a], n, VersionDir(r))]
        /\ Edited(a, "edited")

Next == Publish \/ Load \/ ExtMkdir \/ ExtMkfile \/ ExtRmdir \/ ExtWrite

Spec == Init /\ [][Next]_vars

NextIO == Publish \/ PublishIO \/ ExtMkdir \/ ExtMkfile \/ ExtRmdir \/ ExtWrite

SpecIO == Init /\ [][NextIO]_vars

TypeOK == NPublished <= MaxPublish /\ nedits <= MaxEdits

(***************************************************************************)
(* The scene as a state machine                                            *)
(***************************************************************************)
Key1 == ObjName("key1", <<>>, FALSE)

\* type strings: the words they contain
TypeStrings ==
    {<<"aiAreaLight">>, <<"aiAreaLight", "Point">>, <<"aiMesh", "Light">>,
     <<"directional", "Light">>, <<"point", "Light">>, <<"Spot", "Light">>,
     <<"volume", "Light">>, <<"aiarealight", "Spot">>}

\* the attribute names a LightEntry carries
AttrNames == {"intensity", "color"}

Entries == [name : {Key1}, type : TypeStrings, attributes : {AttrNames}]

RECURSIVE SeqsUpTo(_, _)
SeqsUpTo(S, n) ==
    IF n = 0 THEN {<<>>}
    ELSE LET shorter == SeqsUpTo(S, n - 1)
         IN  shorter \cup {Append(q, x) : q \in {p \in shorter : Len(p) = n - 1}, x \in S}

\* properties.get("lights", [])
LightLists == SeqsUpTo(Entries, MaxLights)

\* the scenes a record is loaded into
InitialScenes == SUBSET {Key1, WithShape(Key1)}

InitScene ==
    /\ InitStore
    /\ InitPath
    /\ InitCollect /\ InitProcs /\ InitWin
    /\ scene \in InitialScenes
    /\ applied = NoCall

Apply ==
    \E lights \in LightLists :
      \E fails \in SUBSET (1..Len(lights)), unset \in SUBSET (1..Len(lights)), strip \in BOOLEAN :
        LET r == apply_light_properties(scene, lights, fails, unset, strip)
        IN  /\ applied.calls < MaxApply
            /\ scene' = r.scene
            /\ applied' = [calls |-> applied.calls + 1, before |-> scene, lights |-> lights,
                           requests |-> r.requests, created |-> r.created, ret |-> r.ret,
                           raised |-> r.raised]
            /\ UNCHANGED <<storeVars, pathVars, otherVars>>

NextScene == Apply

SpecScene == InitScene /\ [][NextScene]_vars

(***************************************************************************)
(* The custom path override as a state machine                             *)
(***************************************************************************)
\* what another actor leaves at <default path>/env.json
EnvContents ==
    <<Truncated, RecordDir,
     TextFile(JArr(<<>>)),
     TextFile(JObj([note |-> JStr("x")])),
     TextFile(JObj([custom_path |-> JStr("")])),
     TextFile(JObj([custom_path |-> JNull])),
     TextFile(JObj([custom_path |-> JNum(5)])),
     TextFile(JObj([custom_path |-> JStr("F")])),
     TextFile(JObj([custom_path |-> JStr("P1")]))>>

\* the texts typed into the "Set Custom Folder" dialog
DialogTexts == CustomPaths \cup {""}

\* VersionManager(): LightFinderWindow.__init__ constructs one per window
Construct ==
    LET r == VersionManager(envs, dirs, DefaultPath)
    IN  /\ Len(managers) < MaxManagers
        /\ managers' = Append(managers, [exc |-> r.exc, base_path |-> r.base_path,
                                         saw |-> envs[DefaultPath]])
        /\ dirs' = r.dirs
        /\ UNCHANGED <<envs, written, storeVars, sceneVars, otherVars>>

\* set_custom_path in the window of the i-th VersionManager
SetCustomPathCall(i, new_path, ok) ==
    LET r == set_custom_path(envs, managers[i].base_path, new_path, ok)
    IN  /\ managers[i].exc = "none"
        /\ written.n < MaxOverrides
        /\ envs' = r.envs
        /\ written' = IF r.wrote
                      THEN [n |-> written.n + 1, set |-> TRUE, path |-> new_path,
                            active |-> managers[i].base_path, before |-> managers]
                      ELSE written
        /\ UNCHANGED <<dirs, managers, storeVars, sceneVars, otherVars>>

SetCustomPath ==
    \E i \in 1..Len(managers), new_path \in DialogTexts, ok \in BOOLEAN :
        SetCustomPathCall(i, new_path, ok)

\* another actor replaces <default path>/env.json
ExtEnv ==
    \E k \in 1..Len(EnvContents) :
        /\ nedits < MaxEdits
        /\ nedits' = nedits + 1
        /\ envs' = [envs EXCEPT ![DefaultPath] = EnvContents[k]]
        /\ dirs' = dirs \cup {DefaultPath}
        /\ written' = [written EXCEPT !.set = FALSE]
        /\ UNCHANGED <<managers, fs, last, ncalls, allocated, ext, sceneVars, otherVars>>

NextPath == Construct \/ SetCustomPath \/ ExtEnv

SpecPath == Init /\ [][NextPath]_vars

(***************************************************************************)
(* collect_light_properties as a state machine                             *)
(***************************************************************************)
\* what getAttr does for each attribute of a node
ReadProfiles ==
    <<\* every read succeeds; translateX comes as [5], scale as (1, 1, 1),
      \* color as Maya returns a compound: [(1, 1, 1)]
      [a \in AttrNamesRead |->
          CASE a = "translateX" -> ReadGives(PyList(<<PyNum(5)>>))
            [] a = "scale" -> ReadGives(PyTuple(Vec(1, 1, 1)))
            [] a = "color" -> ReadGives(PyList(<<PyTuple(Vec(1, 1, 1))>>))
            [] a = "aiUserOptions" -> ReadGives(PyStr("opt"))
            [] OTHER -> ReadGives(PyNum(1))],
      \* translateX and aiExposure cannot be read; color is an empty list
      [a \in AttrNamesRead |->
          CASE a \in {"translateX", "aiExposure"} -> ReadRaises
            [] a = "scale" -> ReadGives(PyList(Vec(2, 2, 2)))
            [] a = "color" -> ReadGives(PyList(<<>>))
            [] a = "aiUserOptions" -> ReadGives(PyStr(""))
            [] OTHER -> ReadGives(PyNum(0))],
      \* no attribute can be read
      [a \in AttrNamesRead |-> ReadRaises]>>

SceneNode(name, type, shapes, profile) ==
    [name |-> name, type |-> type, shapes |-> shapes, reads |-> ReadProfiles[profile]]

\* the identifiers collect_light_properties is given: lights with a shape,
\* a group without shapes, a name listRelatives raises on
SceneNodes ==
    <<SceneNode("key1", "pointLight", "shape", 1),
      SceneNode("key1", "pointLight", "shape", 2),
      SceneNode("key1", "pointLight", "shape", 3),
      SceneNode("fill1", "aiAreaLight", "shape", 1),
      SceneNode("fill1", "aiAreaLight", "shape", 2),
      SceneNode("rim1", "spotLight", "shape", 1),
      SceneNode("rim1", "spotLight", "shape", 3),
      SceneNode("grp1", "transform", "none", 1),
      SceneNode("grp2", "transform", "none", 2),
      SceneNode("gone1", "unknown", "raises", 3)>>

Selections == SeqsUpTo(1..Len(SceneNodes), MaxSelected)

Collect ==
    \E sel \in Selections :
        LET nodes == [i \in 1..Len(sel) |-> SceneNodes[sel[i]]]
        IN  /\ collected.calls < MaxCollect
            /\ collected' = [calls |-> collected.calls + 1, nodes |-> nodes,
                             lights |-> collect_light_properties(nodes)]
            /\ UNCHANGED <<storeVars, sceneVars, pathVars, procs, win>>

NextCollect == Collect

SpecCollect == Init /\ [][NextCollect]_vars

(***************************************************************************)
(* Two processes in publish_file on the same asset: each filesystem call   *)
(* is one step                                                             *)
(***************************************************************************)
RaceAsset == "rigA"

\* except Exception: return False, or return True
Returned(proc, exc) ==
    [proc EXCEPT !.pc = "done", !.ret = (exc = "none"),
                 !.raised = (exc # "none" /\ ~ExceptException(exc))]

\* publish_file(asset_name, file_data) is entered
RaceCall(p) ==
    \E d \in Records :
        /\ procs[p].pc = "idle"
        /\ NPublished < MaxPublish
        /\ ncalls' = [ncalls EXCEPT ![RaceAsset] = @ + 1]
        /\ procs' = [procs EXCEPT ![p] = [IdleProc EXCEPT !.pc = "mkdir_asset", !.data = d]]
        /\ UNCHANGED <<fs, last, allocated, ext, nedits, sceneVars, pathVars, collected, win>>

\* asset_path.mkdir(parents=True, exist_ok=True)
RaceMkdirAsset(p) ==
    LET r == MkdirAsset(fs, RaceAsset, "none")
    IN  /\ procs[p].pc = "mkdir_asset"
        /\ fs' = r.fs
        /\ procs' = [procs EXCEPT ![p] = IF r.exc # "none" THEN Returned(@, r.exc)
                                         ELSE [@ EXCEPT !.pc = "get_latest"]]
        /\ UNCHANGED <<last, ncalls, allocated, ext, nedits, sceneVars, pathVars, collected, win>>

\* latest = self.get_latest_version(asset_name)
RaceGetLatest(p) ==
    LET r == get_latest_version(fs, RaceAsset)
    IN  /\ procs[p].pc = "get_latest"
        /\ procs' = [procs EXCEPT ![p] = IF r.exc # "none" THEN Returned(@, r.exc)
                                         ELSE [@ EXCEPT !.pc = "mkdir_version",
                                                        !.listed = TRUE, !.latest = r.val]]
        /\ UNCHANGED <<storeVars, sceneVars, pathVars, collected, win>>

\* new_version = (latest or 0) + 1; version_path.mkdir(parents=True, exist_ok=True)
RaceMkdirVersion(p) ==
    LET r == MkdirVersion(fs, RaceAsset, NewVersion(procs[p].latest), "none")
    IN  /\ procs[p].pc = "mkdir_version"
        /\ fs' = r.fs
        /\ procs' = [procs EXCEPT ![p] = IF r.exc # "none" THEN Returned(@, r.exc)
                                         ELSE [@ EXCEPT !.pc = "write", !.version = r.version]]
        /\ UNCHANGED <<last, ncalls, allocated, ext, nedits, sceneVars, pathVars, collected, win>>

\* the metadata, open(file_path, 'w') and json.dump; return True
RaceWrite(p) ==
    \E now \in Times :
        LET r == WriteFile(fs, RaceAsset, procs[p].version,
                           Stamped(procs[p].data, now, RaceAsset), "none")
        IN  /\ procs[p].pc = "write"
            /\ fs' = r.fs
            /\ procs' = [procs EXCEPT ![p] = Returned(@, r.exc)]
            /\ UNCHANGED <<last, ncalls, allocated, ext, nedits, sceneVars, pathVars,
                           collected, win>>

NextRace ==
    \E p \in Procs :
        \/ RaceCall(p)
        \/ RaceMkdirAsset(p)
        \/ RaceGetLatest(p)
        \/ RaceMkdirVersion(p)
        \/ RaceWrite(p)

SpecRace == Init /\ [][NextRace]_vars

(***************************************************************************)
(* The loader window as a state machine                                    *)
(***************************************************************************)
\* the asset names typed into the publication name field
WinAssets == {"rigA", "rigB"}

\* collect_light_properties(lights) with the description added
WinRecords == {RecTwo}

\* get_all_assets(): the directories in the root
get_all_assets(store) == {a \in DOMAIN store : store[a].kind = "dir"}

\* refresh_assets(): loader_list.clear() drops the selection, the slots it
\* fires find no selected item; current_asset and current_version stay
refresh_assets(w, store) ==
    [w EXCEPT !.assets = get_all_assets(store), !.selected = NoAsset]

\* version_combo.clear(), then addItem for each version: clear() leaves
\* count() = 0, so on_version_changed keeps current_version; the first
\* addItem makes index 0 current and on_version_changed stores its data
FillCombo(w, versions) ==
    IF versions.exc # "none" \/ versions.val = <<>>
    THEN [w EXCEPT !.combo = <<>>, !.index = 0]
    ELSE [w EXCEPT !.combo = versions.val, !.index = 1,
                   !.current_version = versions.val[1]]

\* refresh_versions()
refresh_versions(w, store) ==
    IF w.current_asset # NoAsset
    THEN FillCombo(w, get_versions(store, w.current_asset))
    ELSE [w EXCEPT !.combo = <<>>, !.index = 0]

\* on_asset_selected() with item selected in loader_list
on_asset_selected(w, store, item) ==
    refresh_versions([w EXCEPT !.current_asset = item, !.selected = item], store)

\* on_version_changed() after the user made entry k of version_combo current
on_version_changed(w, k) ==
    IF Len(w.combo) > 0
    THEN [w EXCEPT !.index = k, !.current_version = w.combo[k]]
    ELSE w

\* the number of publish_file calls from the window so far
WinPublished == Sum(ncalls, WinAssets)

InitWindow ==
    /\ fs = [a \in WinAssets |-> NoEntry]
    /\ last = [op |-> "init"]
    /\ ncalls = [a \in WinAssets |-> 0]
    /\ allocated = [a \in WinAssets |-> {}]
    /\ ext = [a \in WinAssets |-> "none"]
    /\ nedits = 0
    /\ InitPath
    /\ InitCollect /\ InitProcs /\ InitWin
    /\ scene = {}
    /\ applied = NoCall

\* the user selects an item of loader_list
SelectAsset ==
    \E item \in win.assets :
        /\ item # win.selected
        /\ win' = on_asset_selected(win, fs, item)
        /\ UNCHANGED <<storeVars, sceneVars, pathVars, collected, procs>>

\* the user picks another entry of version_combo
ChooseVersion ==
    \E k \in 1..Len(win.combo) :
        /\ k # win.index
        /\ win' = on_version_changed(win, k)
        /\ UNCHANGED <<storeVars, sceneVars, pathVars, collected, procs>>

\* publish_configuration() confirmed: publish_file, then refresh_assets()
\* when it returned True
WinPublish ==
    \E name \in WinAssets, d \in WinRecords, now \in Times :
        LET r == publish_file(fs, name, d, now, "none")
        IN  /\ WinPublished < MaxPublish
            /\ ncalls' = [ncalls EXCEPT ![name] = @ + 1]
            /\ fs' = r.fs
            /\ win' = IF r.ret THEN refresh_assets(win, r.fs) ELSE win
            /\ last' = [op |-> "publish", asset |-> name, ret |-> r.ret]
            /\ UNCHANGED <<allocated, ext, nedits, sceneVars, pathVars, collected, procs>>

\* load_configuration(): load_file(current_asset, current_version)
WinLoad ==
    LET r == load_file(fs, win.current_asset, win.current_version)
    IN  /\ win.current_asset # NoAsset
        /\ win.current_version # None
        /\ last' = [op |-> "load", asset |-> win.current_asset,
                    version |-> win.current_version, found |-> r.ret # PyNone]
        /\ UNCHANGED <<fs, ncalls, allocated, ext, nedits, win, sceneVars, pathVars,
                       collected, procs>>

\* another actor makes a directory in the root
ExtMkAsset ==
    \E a \in WinAssets :
        /\ fs[a].kind = "none"
        /\ nedits < MaxEdits
        /\ nedits' = nedits + 1
        /\ fs' = [fs EXCEPT ![a] = EmptyDir]
        /\ last' = [op |-> "edit", asset |-> a]
        /\ UNCHANGED <<ncalls, allocated, ext, win, sceneVars, pathVars, collected, procs>>

NextWindow == SelectAsset \/ ChooseVersion \/ WinPublish \/ WinLoad \/ ExtMkAsset

SpecWindow == InitWindow /\ [][NextWindow]_vars

\* C10 as stated: the name requested for each LightEntry, of any type, does
\* not exist in the scene at the moment of creation; two entries named "key1"
\* yield the objects "key1" and "key1_1" when no "key1" exists beforehand, and
\* "key1_1" and "key1_2" when "key1" exists.
C10_FreshNames ==
    (applied.calls > 0) =>
        /\ \A i \in 1..Len(applied.requests) : ~applied.requests[i].existed
        /\ (Len(applied.lights) = 2 /\ Len(applied.created) = 2) =>
              applied.created =
                  IF Key1 \in applied.before
                  THEN <<WithCounter(Key1, 1), WithCounter(Key1, 2)>>
                  ELSE <<Key1, WithCounter(Key1, 1)>>

(***************************************************************************)
(* Properties of the store                                                 *)
(***************************************************************************)
TheAsset == "rigA"

\* <<n, n-1, ..., 1>>
Countdown(n) == [i \in 1..n |-> n + 1 - i]

\* the step is a publish_file call on asset
PublishStep(asset) == last'.op = "publish" /\ last'.asset = asset /\ ncalls'[asset] = ncalls[asset] + 1

\* the numbers of the version directories of an asset directory
ExistingVersions(e) ==
    {int(n) : n \in {m \in Names(e) : e.ents[m].kind = "dir" /\ ~IntRaises(m)}}

Max(S) == CHOOSE m \in S : \A k \in S : m >= k

\* the record file of a version holds a complete document
Complete(store, asset, version) ==
    LET rec == RecordAt(store, asset, str(version))
    IN  rec.kind = "text" /\ rec.wf

\* C1: after N >= 1 publish_file calls on an asset that did not exist before
\* (and that nobody else touched), get_versions returns N, N-1, ..., 1 and
\* get_latest_version returns N.
C1_VersionsOneToN ==
    \A a \in Assets :
        (ext[a] = "none" /\ ncalls[a] >= 1) =>
            /\ get_versions(fs, a) = [exc |-> "none", val |-> Countdown(ncalls[a])]
            /\ get_latest_version(fs, a) = [exc |-> "none", val |-> ncalls[a]]

C1_Witness ==
    /\ ext[TheAsset] = "none"
    /\ ncalls[TheAsset] = 3
    /\ get_versions(fs, TheAsset).val = <<3, 2, 1>>

\* C2: a publish_file or load_file call leaves every entry that existed in
\* the asset directory before the call unchanged, and a publish that
\* allocates a version writes into a directory that did not exist before.
C2_RecordsImmutable ==
    [][\A a \in Assets :
        (last'.op \in {"publish", "load"}) =>
            /\ \A n \in Names(fs[a]) : n \in Names(fs'[a]) /\ fs'[a].ents[n] = fs[a].ents[n]
            /\ (PublishStep(a) /\ last'.version # None) => str(last'.version) \notin Names(fs[a])
      ]_vars

\* the second publish of rigA has written version 2 next to the record of version 1
C2_Witness ==
    /\ last.op = "publish" /\ last.ret /\ last.version = 2
    /\ ext[TheAsset] = "none"
    /\ Complete(fs, TheAsset, 1) /\ Complete(fs, TheAsset, 2)
    /\ RecordAt(fs, TheAsset, <<"1">>) # RecordAt(fs, TheAsset, <<"2">>)
    /\ get_versions(fs, TheAsset).val = <<2, 1>>

\* C3 as stated: with publishes and deletions of version directories only, a
\* publish never returns a number an earlier publish of the asset received.
C3_NeverAllocatedTwice ==
    [][\A a \in Assets :
        (PublishStep(a) /\ ext[a] # "edited" /\ last'.version # None) =>
            last'.version \notin allocated[a]
      ]_vars

\* C3 (amended): the number a publish returns is greater than every number an
\* earlier publish received whose version directory still exists; a number
\* comes back only after it and every higher version have been deleted.
C3_AboveSurvivors ==
    [][\A a \in Assets :
        (PublishStep(a) /\ last'.version # None) =>
            \A w \in allocated[a] :
                (\E k \in ExistingVersions(fs[a]) : k >= w) => last'.version > w
      ]_vars

\* version 2 was deleted and allocated again while version 1 survived
C3_Witness ==
    /\ last.op = "publish" /\ last.version = 2
    /\ ncalls[TheAsset] = 3
    /\ ext[TheAsset] = "deleted"
    /\ ExistingVersions(fs[TheAsset]) = {1, 2}

\* C4: whenever create_new_version allocates, the number is max(existing)+1,
\* or 1 when no numeric version directory exists, never a gap below the
\* maximum; the new directory exists afterwards; and it allocates version 1
\* when the asset directory does not exist yet.
C4_MaxPlusOne ==
    [][\A a \in Assets :
        PublishStep(a) =>
            LET E == ExistingVersions(fs[a])
                v == last'.version
            IN  /\ (v # None) =>
                    /\ v = (IF E = {} THEN 1 ELSE Max(E) + 1)
                    /\ str(v) \in Names(fs'[a]) /\ fs'[a].ents[str(v)].kind = "dir"
                /\ (fs[a].kind = "none") => v = 1
      ]_vars

\* versions {1,3,5} existed and the publish allocated 6
C4_Witness ==
    /\ last.op = "publish" /\ last.version = 6
    /\ ExistingVersions(fs[TheAsset]) = {1, 3, 5, 6}

\* C5 as stated: with publish_file calls only, every version get_versions
\* lists can be loaded.
C5_EveryVersionHasRecord ==
    \A a \in Assets :
        (ext[a] = "none") =>
            LET r == get_versions(fs, a)
            IN  \A i \in 1..Len(r.val) : load_file(fs, a, r.val[i]).ret # PyNone

\* C6: publish_file never raises; it returns True exactly when the record
\* file has been completely written to a version directory the call created,
\* and False on every error while allocating or writing.
C6_PublishNeverRaises ==
    [][\A a \in Assets :
        PublishStep(a) =>
            /\ ~last'.raised
            /\ last'.ret <=>
                    /\ last'.version # None
                    /\ str(last'.version) \notin Names(fs[a])
                    /\ Complete(fs', a, last'.version)
      ]_vars

\* a publish of a serializable record failed while writing (a truncated file
\* is left) after an earlier publish had succeeded
C6_Witness ==
    /\ last.op = "publish" /\ ~last.ret /\ last.version = 2
    /\ Serializable(last.data)
    /\ RecordAt(fs, TheAsset, <<"2">>) = Truncated
    /\ Complete(fs, TheAsset, 1)

\* the record file of (asset, version) does not exist as a file
RecordMissing(store, asset, version) ==
    RecordAt(store, asset, get_version_path(version)).kind \in {"none", "dir"}

\* C7: load_file never raises and never changes the store; it returns None
\* when the asset, the version directory or the record file does not exist
\* and when the file is not a well-formed document, otherwise the decoded
\* document.
C7_LoadNeverRaises ==
    [][(last'.op = "load") =>
        LET a == last'.asset
            rec == RecordAt(fs, a, get_version_path(last'.version))
        IN  /\ fs' = fs
            /\ ~last'.raised
            /\ RecordMissing(fs, a, last'.version) => last'.ret = PyNone
            /\ (rec.kind = "text" /\ ~rec.wf) => last'.ret = PyNone
            /\ (rec.kind = "text" /\ rec.wf) =>
                   (last'.ret # PyNone /\ last'.ret = JsonLoad(rec.doc))
      ]_vars

\* a load of a truncated record returned None
C7_Witness ==
    /\ last.op = "load" /\ last.ret = PyNone /\ ~last.raised
    /\ RecordAt(fs, last.asset, get_version_path(last.version)) = Truncated

\* the record load_file returns for the version the last publish wrote
Reloaded == load_file(fs, last.asset, last.version).ret

\* C8 as stated: after a successful publish of R, load_file returns a record
\* whose lights and description equal those of R, with _asset_name the asset
\* and _published the publish timestamp.
C8_RoundTripEqual ==
    (last.op = "publish" /\ last.ret) =>
        /\ Reloaded.t = "dict"
        /\ Reloaded.v.lights = last.data.v.lights
        /\ Reloaded.v.description = last.data.v.description
        /\ Reloaded.v._asset_name = PyStr(last.asset)
        /\ Reloaded.v._published = PyStr(last.now)

\* x with every tuple in it replaced by the list of its elements
RECURSIVE TuplesAsLists(_)
TuplesAsLists(x) ==
    CASE x.t \in {"list", "tuple"} -> PyList([i \in 1..Len(x.v) |-> TuplesAsLists(x.v[i])])
      [] x.t = "dict" -> PyDict([k \in DOMAIN x.v |-> TuplesAsLists(x.v[k])])
      [] OTHER -> x

\* C8 (amended): the reloaded lights and description equal those of R once
\* every tuple in them is replaced by the list of its elements; _asset_name
\* is the asset and _published the publish timestamp, whatever R carried.
C8_RoundTripUpToTuples ==
    (last.op = "publish" /\ last.ret) =>
        /\ Reloaded.t = "dict"
        /\ Reloaded.v.lights = TuplesAsLists(last.data.v.lights)
        /\ Reloaded.v.description = last.data.v.description
        /\ Reloaded.v._asset_name = PyStr(last.asset)
        /\ Reloaded.v._published = PyStr(last.now)
        /\ DOMAIN Reloaded.v = DOMAIN last.data.v \cup {"_published", "_asset_name"}

\* a record holding a tuple and a record carrying the two keys were published
C8_Witness ==
    /\ last.op = "publish" /\ last.ret /\ last.data = RecTwo
    /\ last.data.v.lights # TuplesAsLists(last.data.v.lights)
    /\ \E n \in Names(fs[TheAsset]) :
          LET rec == RecordAt(fs, TheAsset, n)
          IN  rec.kind = "text" /\ rec.wf /\ rec.doc.v.description = JStr("three lights")

IsStrictlyDescending(s) == \A i \in 1..(Len(s) - 1) : s[i] > s[i + 1]

\* C9 as stated: get_versions returns without error, in strictly descending
\* order, exactly the numbers of the subdirectories whose names parse as
\* non-negative integers (the empty list for a missing asset directory), and
\* get_latest_version is the maximum of that list or None.
C9_GetVersions ==
    \A a \in Assets :
        LET r == get_versions(fs, a)
            l == get_latest_version(fs, a)
            E == ExistingVersions(fs[a])
        IN  /\ r.exc = "none" /\ l.exc = "none"
            /\ IsStrictlyDescending(r.val)
            /\ {r.val[i] : i \in 1..Len(r.val)} = E
            /\ (fs[a].kind = "none") => r.val = <<>>
            /\ l.val = (IF E = {} THEN None ELSE Max(E))

(***************************************************************************)
(* Properties of the scene                                                 *)
(***************************************************************************)
\* the entries of the last apply_light_properties call whose creation succeeded
CreatedEntries ==
    {i \in 1..Len(applied.requests) : ~applied.requests[i].failed}

\* C11: apply_light_properties never raises; every LightEntry is attempted
\* whatever happened to the entries before it; every light whose creation
\* succeeded is in created_lights however many of its attributes were set;
\* the call returns True iff at least one light was created.
C11_EachLightIndependent ==
    (applied.calls > 0) =>
        /\ ~applied.raised
        /\ Len(applied.requests) = Len(applied.lights)
        /\ Len(applied.created) = Cardinality(CreatedEntries)
        /\ applied.ret = (CreatedEntries # {})

\* the first light failed to be created, the second was created with none of
\* its attributes set, and the call returned True
C11_Witness ==
    /\ applied.calls > 0
    /\ Len(applied.lights) = 2
    /\ applied.requests[1].failed
    /\ ~applied.requests[2].failed /\ applied.requests[2].applied_count = 0
    /\ Len(applied.created) = 1
    /\ applied.ret

\* the substring tests in the order the claim gives them; ci: case-insensitive
TypeTests ==
    <<[sub |-> "aiAreaLight", ci |-> FALSE, op |-> "aiAreaLight"],
      [sub |-> "aiMesh", ci |-> FALSE, op |-> "mesh"],
      [sub |-> "directional", ci |-> TRUE, op |-> "directionalLight"],
      [sub |-> "point", ci |-> TRUE, op |-> "pointLight"],
      [sub |-> "spot", ci |-> TRUE, op |-> "spotLight"]>>

TypeMatches(type, test) ==
    IF test.ci THEN ContainsLower(type, test.sub) ELSE Contains(type, test.sub)

\* the operation of the first test that matches, the fallback when none does
FirstMatch(type) ==
    LET hits == {k \in 1..Len(TypeTests) : TypeMatches(type, TypeTests[k])}
    IN  IF hits = {} THEN "areaLight"
        ELSE TypeTests[CHOOSE k \in hits : \A j \in hits : k <= j].op

\* C12: the creation operation of every LightEntry is the one of the first
\* matching test in the order aiAreaLight, aiMesh, directional, point, spot,
\* else the fallback areaLight; a type containing "aiAreaLight" is created as
\* an aiAreaLight even when it also contains "point".
C12_FirstMatchWins ==
    (applied.calls > 0) =>
        \A i \in 1..Len(applied.requests) :
            /\ applied.requests[i].op = FirstMatch(applied.lights[i].type)
            /\ Contains(applied.lights[i].type, "aiAreaLight") =>
                   applied.requests[i].op = "aiAreaLight"

\* one call created an "aiAreaLight Point" entry as an aiAreaLight and an entry
\* of an unrecognised type as the fallback areaLight
C12_Witness ==
    /\ applied.calls > 0
    /\ Len(applied.requests) = 2
    /\ applied.lights[1].type = <<"aiAreaLight", "Point">>
    /\ applied.requests[1].op = "aiAreaLight" /\ ~applied.requests[1].failed
    /\ applied.lights[2].type = <<"volume", "Light">>
    /\ applied.requests[2].op = "areaLight" /\ ~applied.requests[2].failed

(***************************************************************************)
(* Properties of the custom path override                                  *)
(***************************************************************************)
\* the env.json entry holds a parseable mapping with a non-empty custom_path
HasCustomPath(entry) ==
    /\ entry.kind = "text" /\ entry.wf
    /\ entry.doc.j = "object"
    /\ "custom_path" \in DOMAIN entry.doc.v
    /\ Truthy(JsonLoad(entry.doc.v.custom_path))

\* C13 as stated: no construction fails because of the override record; the
\* root is <custom_path>/Published_lights when env.json exists, parses and
\* holds a non-empty custom_path, the default path in every other case; the
\* root directory exists after construction.
C13_ConstructionNeverFails ==
    \A i \in 1..Len(managers) :
        /\ managers[i].exc = "none"
        /\ managers[i].base_path =
               IF HasCustomPath(managers[i].saw)
               THEN PublishedLights(managers[i].saw.doc.v.custom_path.v)
               ELSE DefaultPath
        /\ managers[i].base_path \in dirs

\* C14 as stated: a set_custom_path(P) write leaves the managers constructed
\* before it as they were, and every manager constructed after it has root
\* P/Published_lights, whatever root was active in the window that wrote it.
C14_OverrideForLaterStores ==
    written.set =>
        /\ SubSeq(managers, 1, Len(written.before)) = written.before
        /\ \A i \in (Len(written.before) + 1)..Len(managers) :
               /\ managers[i].exc = "none"
               /\ managers[i].base_path = PublishedLights(written.path)

(***************************************************************************)
(* Properties of collect_light_properties                                  *)
(***************************************************************************)
\* the names of the nodes, in order, whose shape resolves
RECURSIVE WithShapeNames(_)
WithShapeNames(nodes) ==
    IF nodes = <<>> THEN <<>>
    ELSE (IF Head(nodes).shapes = "shape" THEN <<Head(nodes).name>> ELSE <<>>)
         \o WithShapeNames(Tail(nodes))

\* the nodes, in order, whose shape resolves
RECURSIVE WithShapeNodes(_)
WithShapeNodes(nodes) ==
    IF nodes = <<>> THEN <<>>
    ELSE (IF Head(nodes).shapes = "shape" THEN <<Head(nodes)>> ELSE <<>>)
         \o WithShapeNodes(Tail(nodes))

Range(q) == {q[i] : i \in 1..Len(q)}

\* the attributes of a node collect_light_properties reads into "transform",
\* into "attributes"
TransformRead == {a \in Range(TransformKeyable) : HasTransformKeyword(a)}
ShapeRead == Range(ShapeKeyable) \cup {a \in Range(ShapeAll) : HasAi(a)}

\* C15: the collected lights are, in input order, exactly the input
\* identifiers whose shape resolves; for each of them exactly the attributes
\* whose read succeeded are stored, a failed read drops only its attribute.
C15_CollectsEveryLightWithShape ==
    (collected.calls > 0) =>
        LET kept == WithShapeNodes(collected.nodes)
        IN  /\ Len(collected.lights) = Len(kept)
            /\ \A i \in 1..Len(kept) :
                   /\ collected.lights[i].name = kept[i].name
                   /\ DOMAIN collected.lights[i].transform =
                          {a \in TransformRead : kept[i].reads[a].ok}
                   /\ DOMAIN collected.lights[i].attributes =
                          {a \in ShapeRead : kept[i].reads[a].ok}

\* a node without shapes was skipped and the light after it collected, with
\* the attribute that could not be read missing and the others present
C15_Witness ==
    /\ collected.calls > 0
    /\ Len(collected.nodes) = 2
    /\ collected.nodes[1].shapes = "none"
    /\ collected.nodes[2].shapes = "shape"
    /\ Len(collected.lights) = 1
    /\ collected.lights[1].name = "key1"
    /\ DOMAIN collected.lights[1].transform = {"scale"}
    /\ DOMAIN collected.lights[1].attributes = {"intensity", "color", "aiUserOptions"}

\* the value the claim says is stored for a read
Normalised(x) ==
    CASE x.t \in {"list", "tuple"} /\ Len(x.v) = 1 -> x.v[1]
      [] x.t \in {"list", "tuple"} /\ Len(x.v) > 1 -> PyList(x.v)
      [] OTHER -> x

SameValue(x, y) == x.t = y.t /\ x = y

\* C16: every value stored in "transform" and in "attributes" is the read
\* value normalised: the single element of a sequence of length 1, the list
\* of the elements of a longer sequence, any other value as read.
C16_ValuesNormalised ==
    (collected.calls > 0) =>
        LET kept == WithShapeNodes(collected.nodes)
        IN  \A i \in 1..Len(collected.lights) :
                /\ \A a \in DOMAIN collected.lights[i].transform :
                       SameValue(collected.lights[i].transform[a],
                                 Normalised(kept[i].reads[a].val))
                /\ \A a \in DOMAIN collected.lights[i].attributes :
                       SameValue(collected.lights[i].attributes[a],
                                 Normalised(kept[i].reads[a].val))

\* translateX read as [5] is stored as 5, scale read as (1, 1, 1) as
\* [1, 1, 1], the string of an "ai" attribute as read
C16_Witness ==
    /\ collected.calls > 0
    /\ Len(collected.lights) >= 1
    /\ collected.nodes[1].reads["translateX"] = ReadGives(PyList(<<PyNum(5)>>))
    /\ collected.nodes[1].reads["scale"] = ReadGives(PyTuple(Vec(1, 1, 1)))
    /\ collected.lights[1].transform["translateX"] = PyNum(5)
    /\ collected.lights[1].transform["scale"] = PyList(Vec(1, 1, 1))
    /\ collected.lights[1].attributes["aiUserOptions"] = PyStr("opt")

(***************************************************************************)
(* Properties of concurrent publishes                                      *)
(***************************************************************************)
\* both processes have returned from publish_file and had read the same
\* latest version before either made its version directory
SameLatest(p, q) ==
    /\ p # q
    /\ procs[p].pc = "done" /\ procs[q].pc = "done"
    /\ procs[p].listed /\ procs[q].listed
    /\ procs[p].latest = procs[q].latest

\* C17: when two concurrent publishes of one asset both read the latest
\* version before either creates its directory, both get the same version
\* number, both return True (when their records can be written) and only one
\* of the two records is left in the one version directory.
C17_RaceLosesVersion ==
    \A p, q \in Procs :
        SameLatest(p, q) =>
            /\ procs[p].version = NewVersion(procs[p].latest)
            /\ procs[q].version = procs[p].version
            /\ ~procs[p].raised /\ ~procs[q].raised
            /\ (Serializable(procs[p].data) /\ Serializable(procs[q].data)) =>
                   /\ procs[p].ret /\ procs[q].ret
                   /\ get_versions(fs, RaceAsset).val = <<procs[p].version>>
                   /\ \E w \in {p, q} : \E now \in Times :
                          RecordAt(fs, RaceAsset, str(procs[p].version)) =
                              TextFile(JsonDump(Stamped(procs[w].data, now, RaceAsset)))

\* both publishes returned True with version 1, the store holds one version
\* and in it the record of p2 only
C17_Witness ==
    /\ procs["p1"].pc = "done" /\ procs["p2"].pc = "done"
    /\ procs["p1"].ret /\ procs["p2"].ret
    /\ procs["p1"].version = 1 /\ procs["p2"].version = 1
    /\ procs["p1"].data = RecTwo /\ procs["p2"].data = RecThree
    /\ get_versions(fs, RaceAsset).val = <<1>>
    /\ RecordAt(fs, RaceAsset, <<"1">>).doc.v.description = JStr("three lights")

(***************************************************************************)
(* Properties of the loader window                                         *)
(***************************************************************************)
\* C18 as stated: whenever current_asset is set and current_version is not
\* None, current_version is one of the versions last listed for
\* current_asset (the entries of version_combo).
C18_VersionOfCurrentAsset ==
    (win.current_asset # NoAsset /\ win.current_version # None) =>
        \E k \in 1..Len(win.combo) : win.combo[k] = win.current_version

====
